---- MODULE Spec2Model ----
(***************************************************************************)
(* Model of fate_test/_parser.py: the Testsuite job scheduler.             *)
(*                                                                         *)
(* A Testsuite is built from a suite document (Testsuite.load): a list of  *)
(* structured jobs ("tasks"), each with at most one declared dependency    *)
(* name ("deps"), and a list of scripted jobs ("pipeline_tasks").  The     *)
(* suite keeps a dependency index (_dependency), a deque of ready jobs     *)
(* (_ready_jobs) and one FinalStatus record per job name (_final_status).  *)
(* The caller pulls ready jobs from the generators made by jobs_iter,      *)
(* feeds the model info of a finished job to its dependents                *)
(* (feed_dep_model_info), removes drained index entries                    *)
(* (remove_dependency), records job results (update_status) and asks for   *)
(* the final report (get_final_status).                                    *)
(***************************************************************************)
EXTENDS Naturals, Sequences, FiniteSets, TLC

(***************************************************************************)
(* Bounds of the model.                                                    *)
(***************************************************************************)
\* number of get_final_status calls of a run
MaxReports == 2
\* number of update_status calls of a run that change a record
MaxUpdates == 1

\* job names of the "tasks" mapping, in document order; a suite document
\* of the model declares a non-empty prefix of them
JobNames == <<"A", "B">>
\* a name that no job of the suite carries
Undeclared == "X"
\* the job name of the "pipeline_tasks" mapping
ScriptName == "P"
\* Python's None
None == "None"
\* an attribute that an object does not have
NoAttribute == "no attribute"
\* the Testsuite object itself, as a value
TestsuiteObject == "Testsuite"
\* the generator objects made by jobs_iter()
Gens == {"g1", "g2"}

\* the model_info dictionary fed to dependents (model_id and model_version
\* of the finished job)
ModelInfos == { ("model_id" :> "m1") @@ ("model_version" :> "v1") }
\* job_parameters of a job's conf document
ConfParams == "model_id" :> "m0"
\* Data.config of the "data" entries of the suite document
DataConfigs == << "table_name" :> "t1", "table_name" :> "t2" >>
\* initiator and role of a job's conf document, and what
\* Parties.extract_initiator_role and Parties.extract_role return
ConfInitiator == "conf initiator"
ConfRole == "conf role"
PartiesInitiator == "parties initiator"
PartiesRole == "parties role"
\* Config.work_mode and Config.backend, as the keyword arguments that
\* reflash_configs merges
EnvParams == ("work_mode" :> "w1") @@ ("backend" :> "b1")
\* what JobConf.update does for a job in one reflash_configs call: it
\* returns ("ok"), a Parties lookup rejects the conf with ValueError, in
\* extract_initiator_role or in extract_role, or another exception is
\* raised before anything is assigned (KeyError, self.initiator["role"]
\* of a conf whose initiator has no role)
UpdateOutcomes == {"ok", "ValueError initiator", "ValueError role", "KeyError"}
\* the empty dictionary
EmptyDict == [k \in {} |-> None]
\* keyword arguments of update_status: job_id, status, exception_id
UpdateArgs == { <<None, None, None>>, <<"j1", None, "e1">> }

VARIABLES
  jobs,            \* Testsuite.jobs: job names in document order
  dsl_version,     \* JobConf.dsl_version of each job
  pipeline_jobs,   \* Testsuite.pipeline_jobs: scripted job names
  deps,            \* the declared dependency names of each job at load time
  pre_works,       \* Job.pre_works of each job
  job_parameters,  \* JobConf.job_parameters of each job
  dependency,      \* Testsuite._dependency: ordered dict name -> list of jobs
  ready_jobs,      \* Testsuite._ready_jobs: deque, index 1 is the left end
  final_status,    \* Testsuite._final_status: job name -> FinalStatus
  gen,             \* state of each jobs_iter generator object: "created",
                   \* "suspended" (at its yield) or "closed" (returned)
  hist,            \* history: the insertions into and the yields from
                   \* _ready_jobs so far, in order
  nReports,        \* get_final_status calls so far
  nUpdates,        \* update_status calls so far that changed a record
  dataset,         \* Testsuite.dataset: Data.config of each data entry
  initiator,       \* JobConf.initiator of each job
  role             \* JobConf.role of each job

config == <<jobs, dsl_version, pipeline_jobs, deps>>
\* what reflash_configs writes besides job_parameters
env == <<dataset, initiator, role>>
vars == <<jobs, dsl_version, pipeline_jobs, deps, pre_works, job_parameters,
          dependency, ready_jobs, final_status, gen, hist, nReports,
          nUpdates, dataset, initiator, role>>

(***************************************************************************)
(* Helpers on sequences and dictionaries.                                  *)
(***************************************************************************)
Range(s) == {s[i] : i \in DOMAIN s}

\* dict.update(**kwargs)
DictUpdate(d, kwargs) ==
  [k \in DOMAIN d \cup DOMAIN kwargs |->
     IF k \in DOMAIN kwargs THEN kwargs[k] ELSE d[k]]

\* keys of the ordered dict _dependency
DepKeys(dep) == {dep[i].name : i \in DOMAIN dep}

\* position of a key in the ordered dict
DepIndex(dep, name) == CHOOSE i \in DOMAIN dep : dep[i].name = name

\* a slip: self._dependency[name] = [job]
DepAssign(dep, name, job) ==
  IF name \in DepKeys(dep)
  THEN [dep EXCEPT ![DepIndex(dep, name)].jobs = <<job>>]
  ELSE Append(dep, [name |-> name, jobs |-> <<job>>])

\* self._dependency.setdefault(name, []).append(job)
DepSetdefaultAppend(dep, name, job) ==
  IF name \in DepKeys(dep)
  THEN [dep EXCEPT ![DepIndex(dep, name)].jobs = Append(@, job)]
  ELSE Append(dep, [name |-> name, jobs |-> <<job>>])

\* a slip: deque.append, at the right end
append(q, job) == q \o <<job>>

\* deque.appendleft
appendleft(q, job) == <<job>> \o q

\* a slip: deque.popleft
popleft(q) == [item |-> q[1], rest |-> SubSeq(q, 2, Len(q))]

\* deque.pop(): the item returned, from the right end, and the deque left
pop(q) == [item |-> q[Len(q)], rest |-> SubSeq(q, 1, Len(q) - 1)]

(***************************************************************************)
(* Job, JobConf                                                            *)
(***************************************************************************)
\* JobConf.dsl_version of the conf document of each job of the model: the
\* first job's conf has no "dsl_version" entry (the default, 1), the others
\* declare version 2
ConfDslVersion(job) == IF job = JobNames[1] THEN 1 ELSE 2

\* Job.load, lines 156-158: the set of declared dependency names
JobLoadPreWorks(d) == IF d = None THEN {} ELSE {d}

\* a slip: len(self.pre_works) <= 1
is_submit_ready_le1(pw) == Cardinality(pw) <= 1

\* Job.is_submit_ready
is_submit_ready(pw) == Cardinality(pw) = 0

\* a slip: the dsl_version test is left out
update_job_parameters(jp, version, kwargs) ==
  [jp EXCEPT !.top = DictUpdate(@, kwargs)]

\* JobConf.update_job_common_parameters: job_parameters is modelled as
\* [top: the dictionary itself without its "common" key,
\*  has_common: whether the key "common" is present, common: its value]
update_job_common_parameters(jp, version, kwargs) ==
  IF version = 1
  THEN [jp EXCEPT !.top = DictUpdate(@, kwargs)]
  ELSE [jp EXCEPT !.has_common = TRUE,
                  !.common = DictUpdate(IF jp.has_common THEN @ ELSE EmptyDict,
                                        kwargs)]

\* a slip: the parameters are merged before the test of name
set_pre_work_merge_first(pw, jp, version, name, kwargs) ==
  IF name \notin pw
  THEN [err |-> "RuntimeError",
        jp |-> update_job_common_parameters(jp, version, kwargs), pw |-> pw]
  ELSE [err |-> None,
        jp |-> update_job_common_parameters(jp, version, kwargs),
        pw |-> pw \ {name}]

\* a slip: no test of name, self.pre_works.discard(name)
set_pre_work_discard(pw, jp, version, name, kwargs) ==
  [err |-> None,
   jp |-> update_job_common_parameters(jp, version, kwargs),
   pw |-> pw \ {name}]

\* Job.set_pre_work: the error raised, the job's job_parameters and
\* pre_works afterwards
set_pre_work(pw, jp, version, name, kwargs) ==
  IF name \notin pw
  THEN [err |-> "RuntimeError", jp |-> jp, pw |-> pw]
  ELSE [err |-> None,
        jp |-> update_job_common_parameters(jp, version, kwargs),
        pw |-> pw \ {name}]

(***************************************************************************)
(* Testsuite.__init__                                                      *)
(***************************************************************************)
\* a slip: a name that no job of the suite carries is left out
RECURSIVE InitDependencyDeclared(_, _, _)
InitDependencyDeclared(js, pw, n) ==
  IF n = 0 THEN <<>>
  ELSE LET before == InitDependencyDeclared(js, pw, n - 1)
           job == js[n]
       IN  IF pw[job] = {} \/ pw[job] \cap Range(js) = {} THEN before
           ELSE DepSetdefaultAppend(before, CHOOSE d \in pw[job] : TRUE, job)

\* lines 197-199: the dependency index after the first n jobs
RECURSIVE InitDependency(_, _, _)
InitDependency(js, pw, n) ==
  IF n = 0 THEN <<>>
  ELSE LET before == InitDependency(js, pw, n - 1)
           job == js[n]
       IN  IF pw[job] = {} THEN before
           ELSE DepSetdefaultAppend(before, CHOOSE d \in pw[job] : TRUE, job)

\* a slip: "break" after the appendleft, only the first ready job is queued
RECURSIVE InitReadyJobsFirst(_, _, _)
InitReadyJobsFirst(js, pw, n) ==
  IF n = 0 THEN <<>>
  ELSE LET before == InitReadyJobsFirst(js, pw, n - 1)
       IN  IF is_submit_ready(pw[js[n]]) /\ before = <<>>
           THEN appendleft(before, js[n])
           ELSE before

\* lines 201-202: the ready deque after the first n jobs
RECURSIVE InitReadyJobs(_, _, _)
InitReadyJobs(js, pw, n) ==
  IF n = 0 THEN <<>>
  ELSE LET before == InitReadyJobs(js, pw, n - 1)
       IN  IF is_submit_ready(pw[js[n]]) THEN appendleft(before, js[n])
           ELSE before

\* FinalStatus.__init__: the five attributes it sets; "self" stands for an
\* attribute of that name bound later by setattr, NoAttribute while the
\* object has none
FinalStatus(name) ==
  [name |-> name, job_id |-> "-", status |-> "not submitted",
   exception_id |-> "-", rest_dependency |-> <<>>, self |-> NoAttribute]

\* a slip: the loop over pipeline_jobs is missing
InitFinalStatusJobs(js, pjs) ==
  [n \in Range(js) |-> FinalStatus(n)]

\* lines 200 and 204-205: one FinalStatus per job name
InitFinalStatus(js, pjs) ==
  [n \in Range(js) \cup Range(pjs) |-> FinalStatus(n)]

\* the insertions of the constructor, in order
RECURSIVE InitHist(_, _, _)
InitHist(js, pw, n) ==
  IF n = 0 THEN <<>>
  ELSE LET before == InitHist(js, pw, n - 1)
       IN  IF is_submit_ready(pw[js[n]])
           THEN Append(before, [e |-> "insert", job |-> js[n]])
           ELSE before

\* the "pipeline_tasks" mappings of the documents with n tasks: one
\* scripted job, and for the one-task documents none as well, or a
\* scripted job that carries the name of the task
PipelineTasks(n) ==
  IF n = 1 THEN {<<>>, <<ScriptName>>, <<JobNames[1]>>} ELSE {<<ScriptName>>}

\* Testsuite.load and Testsuite.__init__: the suite built from a document
\* whose tasks are a non-empty prefix of names and whose "deps" entries
\* are absent, name a task of the document or are among targets
Loaded(names, targets) ==
  /\ \E n \in 1..Len(names) : jobs = SubSeq(names, 1, n)
  /\ dsl_version = [j \in Range(jobs) |-> ConfDslVersion(j)]
  /\ pipeline_jobs \in PipelineTasks(Len(jobs))
  /\ \E d \in [Range(jobs) -> Range(jobs) \cup {None} \cup targets] :
       deps = [j \in Range(jobs) |-> JobLoadPreWorks(d[j])]
  /\ pre_works = deps
  /\ job_parameters =
       [j \in Range(jobs) |->
          [top |-> ConfParams, has_common |-> FALSE, common |-> EmptyDict]]
  /\ dependency = InitDependency(jobs, pre_works, Len(jobs))
  /\ ready_jobs = InitReadyJobs(jobs, pre_works, Len(jobs))
  /\ final_status = InitFinalStatus(jobs, pipeline_jobs)
  /\ gen = [g \in Gens |-> "created"]
  /\ hist = InitHist(jobs, pre_works, Len(jobs))
  /\ nReports = 0
  /\ nUpdates = 0
  /\ dataset = DataConfigs
  /\ initiator = [j \in Range(jobs) |-> ConfInitiator]
  /\ role = [j \in Range(jobs) |-> ConfRole]

\* the suite documents of the model
Init == Loaded(JobNames, {Undeclared})

(***************************************************************************)
(* Testsuite.jobs_iter: one next() on generator g                          *)
(***************************************************************************)
\* a slip: "if" for "while", the generator returns when resumed
jobs_iter_if(state, q) ==
  IF state \in {"closed", "suspended"} \/ Len(q) = 0
  THEN [state |-> "closed", err |-> "StopIteration", job |-> None, q |-> q]
  ELSE [state |-> "suspended", err |-> None, job |-> pop(q).item,
        q |-> pop(q).rest]

\* the generator's step from its state and the deque: a closed generator
\* raises StopIteration; otherwise the while test runs, and the generator
\* either yields deque.pop() or returns (StopIteration)
jobs_iter(state, q) ==
  IF state = "closed" \/ Len(q) = 0
  THEN [state |-> "closed", err |-> "StopIteration", job |-> None, q |-> q]
  ELSE [state |-> "suspended", err |-> None, job |-> pop(q).item,
        q |-> pop(q).rest]

NextReady(g) ==
  LET r == jobs_iter(gen[g], ready_jobs) IN
  /\ gen' = [gen EXCEPT ![g] = r.state]
  /\ ready_jobs' = r.q
  /\ hist' = IF r.err = None
             THEN Append(hist, [e |-> "yield", job |-> r.job])
             ELSE hist
  /\ UNCHANGED <<config, env, pre_works, job_parameters, dependency, final_status,
                 nReports, nUpdates>>

(***************************************************************************)
(* Testsuite.feed_dep_model_info                                           *)
(***************************************************************************)
\* a slip: self._ready_jobs = deque([job]), the deque is replaced
feed_ready_jobs_replace(q, job, r) ==
  IF r.err = None /\ is_submit_ready(r.pw) THEN <<job>> ELSE q

\* the deque after the call; r is the outcome of job.set_pre_work
feed_ready_jobs(q, job, r) ==
  IF r.err = None /\ is_submit_ready(r.pw) THEN appendleft(q, job) ELSE q

FeedDepModelInfo(job, name, model_info) ==
  LET r == set_pre_work(pre_works[job], job_parameters[job],
                        dsl_version[job], name, model_info) IN
  /\ pre_works' = [pre_works EXCEPT ![job] = r.pw]
  /\ job_parameters' = [job_parameters EXCEPT ![job] = r.jp]
  /\ ready_jobs' = feed_ready_jobs(ready_jobs, job, r)
  /\ hist' = IF ready_jobs' # ready_jobs
             THEN Append(hist, [e |-> "insert", job |-> job])
             ELSE hist
  /\ UNCHANGED <<config, env, dependency, final_status, gen, nReports, nUpdates>>

(***************************************************************************)
(* Testsuite.model_in_dep, get_dependent_jobs, remove_dependency           *)
(***************************************************************************)
\* name in self._dependency
model_in_dep(dep, name) == name \in DepKeys(dep)

\* self._dependency[name]: the list returned, or the KeyError raised
get_dependent_jobs(dep, name) ==
  IF name \in DepKeys(dep)
  THEN [err |-> None, jobs |-> dep[DepIndex(dep, name)].jobs]
  ELSE [err |-> "KeyError", jobs |-> <<>>]

\* a slip: self._dependency.pop(name, None), no error for a missing name
remove_dependency_pop(dep, name) ==
  [err |-> None,
   dep |-> IF name \in DepKeys(dep)
           THEN SubSeq(dep, 1, DepIndex(dep, name) - 1)
                \o SubSeq(dep, DepIndex(dep, name) + 1, Len(dep))
           ELSE dep]

\* a slip: self._dependency[name].clear(), the key stays
remove_dependency_clear(dep, name) ==
  IF name \in DepKeys(dep)
  THEN [err |-> None, dep |-> [dep EXCEPT ![DepIndex(dep, name)].jobs = <<>>]]
  ELSE [err |-> "KeyError", dep |-> dep]

\* del self._dependency[name]: the error raised and the dict afterwards
remove_dependency(dep, name) ==
  IF name \in DepKeys(dep)
  THEN [err |-> None,
        dep |-> SubSeq(dep, 1, DepIndex(dep, name) - 1)
                \o SubSeq(dep, DepIndex(dep, name) + 1, Len(dep))]
  ELSE [err |-> "KeyError", dep |-> dep]

\* the two queries return a value (or raise) and assign nothing
ModelInDep(name) ==
  /\ model_in_dep(dependency, name) \in BOOLEAN
  /\ UNCHANGED vars

GetDependentJobs(name) ==
  /\ get_dependent_jobs(dependency, name).err \in {None, "KeyError"}
  /\ UNCHANGED vars

RemoveDependency(name) ==
  LET r == remove_dependency(dependency, name) IN
  /\ dependency' = r.dep
  /\ UNCHANGED <<config, env, pre_works, job_parameters, ready_jobs, final_status,
                 gen, hist, nReports, nUpdates>>

(***************************************************************************)
(* Testsuite.update_status                                                 *)
(***************************************************************************)
\* a slip: the loop runs over the three keyword arguments, not locals()
update_status_arguments(job_name, job_id, status, exception_id) ==
  << <<"job_id", job_id>>, <<"status", status>>,
     <<"exception_id", exception_id>> >>

\* locals() at line 267: the names bound on entry and their values, in
\* order; self is among them
update_status_locals(job_name, job_id, status, exception_id) ==
  << <<"self", TestsuiteObject>>, <<"job_name", job_name>>,
     <<"job_id", job_id>>, <<"status", status>>,
     <<"exception_id", exception_id>> >>

\* the loop over the first n items: for every item but job_name whose
\* value is not None the record is looked up (a KeyError for a name
\* without record ends the call) and setattr binds the value
RECURSIVE update_status_loop(_, _, _, _)
update_status_loop(fs, job_name, items, n) ==
  IF n = 0 THEN [err |-> None, fs |-> fs]
  ELSE LET before == update_status_loop(fs, job_name, items, n - 1)
           k == items[n][1]
           v == items[n][2]
       IN  IF before.err # None \/ k = "job_name" \/ v = None THEN before
           ELSE IF job_name \notin DOMAIN before.fs
                THEN [err |-> "KeyError", fs |-> before.fs]
                ELSE [err |-> None,
                      fs |-> [before.fs EXCEPT ![job_name][k] = v]]

\* Testsuite.update_status: the error raised and _final_status afterwards.
\* The item for self is never None, so every call looks the record up and
\* binds the suite to the attribute "self" of the record.
update_status(fs, job_name, job_id, status, exception_id) ==
  LET items == update_status_locals(job_name, job_id, status, exception_id)
  IN  update_status_loop(fs, job_name, items, Len(items))

UpdateStatus(job_name, job_id, status, exception_id) ==
  LET r == update_status(final_status, job_name, job_id, status, exception_id) IN
  /\ r.fs # final_status => nUpdates < MaxUpdates
  /\ final_status' = r.fs
  /\ nUpdates' = IF r.fs # final_status THEN nUpdates + 1 ELSE nUpdates
  /\ UNCHANGED <<config, env, pre_works, job_parameters, dependency, ready_jobs,
                 gen, hist, nReports>>

(***************************************************************************)
(* Testsuite.get_final_status                                              *)
(***************************************************************************)
\* a slip: the append is outside the inner loop, only the last job of the
\* list gets the name
AppendRestLast(fs, name, js, n) ==
  IF n = 0 THEN fs
  ELSE [fs EXCEPT ![js[n]].rest_dependency = Append(@, name)]

\* a slip: the name is appended only where the list does not hold it yet
RECURSIVE AppendRestOnce(_, _, _, _)
AppendRestOnce(fs, name, js, n) ==
  IF n = 0 THEN fs
  ELSE LET before == AppendRestOnce(fs, name, js, n - 1)
       IN  IF name \in Range(before[js[n]].rest_dependency)
           THEN before
           ELSE [before EXCEPT ![js[n]].rest_dependency = Append(@, name)]

\* the inner loop: name is appended to the rest_dependency of the first n
\* jobs of the list
RECURSIVE AppendRest(_, _, _, _)
AppendRest(fs, name, js, n) ==
  IF n = 0 THEN fs
  ELSE [AppendRest(fs, name, js, n - 1) EXCEPT
          ![js[n]].rest_dependency = Append(@, name)]

\* a slip: the return is inside the outer loop, only the first item of
\* self._dependency is walked
get_final_status_first(fs, dep, n) ==
  IF n = 0 THEN fs
  ELSE AppendRest(fs, dep[1].name, dep[1].jobs, Len(dep[1].jobs))

\* the outer loop over the first n items of self._dependency
RECURSIVE get_final_status(_, _, _)
get_final_status(fs, dep, n) ==
  IF n = 0 THEN fs
  ELSE AppendRest(get_final_status(fs, dep, n - 1),
                  dep[n].name, dep[n].jobs, Len(dep[n].jobs))

GetFinalStatus ==
  /\ nReports < MaxReports
  /\ final_status' = get_final_status(final_status, dependency, Len(dependency))
  /\ nReports' = nReports + 1
  /\ UNCHANGED <<config, env, pre_works, job_parameters, dependency, ready_jobs,
                 gen, hist, nUpdates>>

(***************************************************************************)
(* Testsuite.reflash_configs                                               *)
(***************************************************************************)
\* JobConf.update on a conf [initiator, role, job_parameters]: the error
\* raised and the conf afterwards.  The two Parties lookups are not part
\* of this file; outcome says what they do for this conf.
JobConfUpdate(conf, version, outcome, kwargs) ==
  CASE outcome = "KeyError" ->
         [err |-> "KeyError", conf |-> conf]
    [] outcome = "ValueError initiator" ->
         [err |-> "ValueError", conf |-> conf]
    [] outcome = "ValueError role" ->
         [err |-> "ValueError",
          conf |-> [conf EXCEPT !.initiator = PartiesInitiator]]
    [] OTHER ->
         [err |-> None,
          conf |-> [initiator |-> PartiesInitiator,
                    role |-> PartiesRole,
                    job_parameters |->
                      update_job_common_parameters(conf.job_parameters,
                                                   version, kwargs)]]

\* a slip: "break" in the except clause, the loop ends at the first
\* rejected job
RECURSIVE reflash_jobs_break(_, _, _)
reflash_jobs_break(confs, outcomes, n) ==
  IF n = 0 THEN [err |-> None, confs |-> confs, failed |-> <<>>, stop |-> FALSE]
  ELSE LET before == reflash_jobs_break(confs, outcomes, n - 1)
           job == jobs[n]
           r == JobConfUpdate(before.confs[job], dsl_version[job],
                              outcomes[job], EnvParams)
       IN  IF before.err # None \/ before.stop THEN before
           ELSE [err |-> IF r.err = "ValueError" THEN None ELSE r.err,
                 confs |-> [before.confs EXCEPT ![job] = r.conf],
                 failed |-> IF r.err = "ValueError"
                            THEN Append(before.failed, <<job, r.err>>)
                            ELSE before.failed,
                 stop |-> r.err = "ValueError"]

\* lines 258-264, the loop over the first n jobs: the exception that ends
\* the call (None when it returns), the confs and the list failed.
\* stop is never set: the loop has no break.
RECURSIVE reflash_jobs(_, _, _)
reflash_jobs(confs, outcomes, n) ==
  IF n = 0 THEN [err |-> None, confs |-> confs, failed |-> <<>>, stop |-> FALSE]
  ELSE LET before == reflash_jobs(confs, outcomes, n - 1)
           job == jobs[n]
           r == JobConfUpdate(before.confs[job], dsl_version[job],
                              outcomes[job], EnvParams)
       IN  IF before.err # None THEN before
           ELSE [err |-> IF r.err = "ValueError" THEN None ELSE r.err,
                 confs |-> [before.confs EXCEPT ![job] = r.conf],
                 failed |-> IF r.err = "ValueError"
                            THEN Append(before.failed, <<job, r.err>>)
                            ELSE before.failed,
                 stop |-> FALSE]

\* lines 255-256: every Data.config gets work_mode and backend
reflash_dataset(ds) == [i \in DOMAIN ds |-> DictUpdate(ds[i], EnvParams)]

\* the confs of the jobs, as JobConf objects
JobConfs ==
  [j \in Range(jobs) |->
     [initiator |-> initiator[j], role |-> role[j],
      job_parameters |-> job_parameters[j]]]

ReflashConfigs(outcomes) ==
  LET r == reflash_jobs(JobConfs, outcomes, Len(jobs)) IN
  /\ dataset' = reflash_dataset(dataset)
  /\ initiator' = [j \in Range(jobs) |-> r.confs[j].initiator]
  /\ role' = [j \in Range(jobs) |-> r.confs[j].role]
  /\ job_parameters' = [j \in Range(jobs) |-> r.confs[j].job_parameters]
  /\ UNCHANGED <<config, pre_works, dependency, ready_jobs, final_status,
                 gen, hist, nReports, nUpdates>>

\* the dependency names a caller passes: the job names of the suite and a
\* name that no job carries
CallNames == Range(jobs) \cup {Undeclared}

\* the job names a caller passes to update_status: the first structured
\* job, the scripted job, and a name without record
StatusNames == {jobs[1]} \cup Range(pipeline_jobs) \cup {Undeclared}

Next ==
  \/ \E g \in Gens : NextReady(g)
  \/ \E job \in Range(jobs), name \in CallNames, model_info \in ModelInfos :
       FeedDepModelInfo(job, name, model_info)
  \/ \E name \in CallNames : ModelInDep(name)
  \/ \E name \in CallNames : GetDependentJobs(name)
  \/ \E name \in CallNames : RemoveDependency(name)
  \/ \E job_name \in StatusNames, a \in UpdateArgs :
       UpdateStatus(job_name, a[1], a[2], a[3])
  \/ GetFinalStatus

Spec == Init /\ [][Next]_vars

\* what JobConf.update does for each job in one reflash_configs call: at
\* most one job of the call is not accepted
CallOutcomes ==
  {o \in [Range(jobs) -> UpdateOutcomes] :
     Cardinality({j \in Range(jobs) : o[j] # "ok"}) <= 1}

\* positions of hist where the job was inserted into / yielded from the deque
InsertsOf(job) == {i \in DOMAIN hist : hist[i].e = "insert" /\ hist[i].job = job}
YieldsOf(job) == {i \in DOMAIN hist : hist[i].e = "yield" /\ hist[i].job = job}
Yields == {i \in DOMAIN hist : hist[i].e = "yield"}

(***************************************************************************)
(* The driver: a single thread that pulls a job from one jobs_iter         *)
(* generator, records its submission, feeds the model info to every job    *)
(* listed under the pulled job's name and removes that entry, until the    *)
(* generator returns; then it asks for the final report.                   *)
(***************************************************************************)
\* the task names of the driver's suite documents
DriverJobNames == <<"A", "B", "C">>
\* the generator of the driver's for loop
DriverGen == CHOOSE g \in Gens : TRUE
\* what the driver records for a submitted job
DriverJobId == "j1"
DriverStatus == "success"

\* a task may also name a scripted job in "deps"
DriverInit == Loaded(DriverJobNames, {Undeclared, ScriptName})

\* the job pulled last
Pulled == hist[CHOOSE i \in Yields : \A k \in Yields : k <= i].job

\* the jobs listed under the pulled job's name that were not fed yet
Unfed ==
  LET js == get_dependent_jobs(dependency, Pulled).jobs
  IN  {i \in DOMAIN js : Pulled \in pre_works[js[i]]}

\* where the driver is in its loop
DriverAt ==
  IF Yields # {} /\ final_status[Pulled].job_id = "-" THEN "update"
  ELSE IF Yields # {} /\ model_in_dep(dependency, Pulled)
       THEN IF Unfed # {} THEN "feed" ELSE "remove"
       ELSE IF gen[DriverGen] # "closed" THEN "pull"
            ELSE IF nReports = 0 THEN "report" ELSE "done"

DriverPull ==
  /\ DriverAt = "pull"
  /\ NextReady(DriverGen)

DriverUpdate ==
  /\ DriverAt = "update"
  /\ final_status' = update_status(final_status, Pulled, DriverJobId,
                                   DriverStatus, None).fs
  /\ nUpdates' = nUpdates + 1
  /\ UNCHANGED <<config, env, pre_works, job_parameters, dependency,
                 ready_jobs, gen, hist, nReports>>

DriverFeed ==
  /\ DriverAt = "feed"
  /\ \E model_info \in ModelInfos :
       LET js == get_dependent_jobs(dependency, Pulled).jobs
           i == CHOOSE i \in Unfed : \A k \in Unfed : i <= k
       IN  FeedDepModelInfo(js[i], Pulled, model_info)

DriverRemove ==
  /\ DriverAt = "remove"
  /\ RemoveDependency(Pulled)

DriverReport ==
  /\ DriverAt = "report"
  /\ GetFinalStatus

DriverNext ==
  \/ DriverPull
  \/ DriverUpdate
  \/ DriverFeed
  \/ DriverRemove
  \/ DriverReport

\* the driver does not stop while it has a step to take
DriverSpec == DriverInit /\ [][DriverNext]_vars /\ WF_vars(DriverNext)

\* the calls of a run that also propagates the environment: one generator
\* is pulled, update_status is called without keyword arguments for the
\* first job, and one report is made
NextEnv ==
  \/ \E outcomes \in CallOutcomes : ReflashConfigs(outcomes)
  \/ NextReady(CHOOSE g \in Gens : TRUE)
  \/ \E job \in Range(jobs), name \in CallNames, model_info \in ModelInfos :
       FeedDepModelInfo(job, name, model_info)
  \/ \E name \in CallNames : RemoveDependency(name)
  \/ UpdateStatus(jobs[1], None, None, None)
  \/ nReports = 0 /\ GetFinalStatus

EnvSpec == Init /\ [][NextEnv]_vars

(***************************************************************************)
(* Derived notions used by the properties.                                 *)
(***************************************************************************)
\* the history right after construction
NothingHappened == hist = InitHist(jobs, deps, Len(jobs))

\* dictionary d holds every item of kwargs
Contains(d, kwargs) ==
  \A k \in DOMAIN kwargs : k \in DOMAIN d /\ d[k] = kwargs[k]

\* the submission configuration fields that feed_dep_model_info is to
\* write for a job: job_parameters for dsl_version 1, job_parameters.common
\* otherwise
Merged(jp, version, kwargs) ==
  IF version = 1
  THEN /\ Contains(jp.top, kwargs)
  ELSE /\ jp.has_common
       /\ Contains(jp.common, kwargs)

\* the suite of the scenario: A without deps, B with deps A
ScenarioSuite ==
  /\ jobs = <<"A", "B">>
  /\ deps["A"] = {}
  /\ deps["B"] = {"A"}

\* A was yielded, then B was released, and nothing since
ScenarioDone ==
  /\ ScenarioSuite
  /\ hist = << [e |-> "insert", job |-> "A"], [e |-> "yield", job |-> "A"],
               [e |-> "insert", job |-> "B"] >>

(***************************************************************************)
(* C1: feed_dep_model_info(job, name, model_info) with name in the job's   *)
(* pre_works merges model_info into the job's job_parameters (dsl_version  *)
(* 1) or job_parameters.common (otherwise), leaving the other keys alone,  *)
(* removes name from pre_works, and inserts the job into _ready_jobs if    *)
(* and only if pre_works is empty afterwards.  In the suite A (no deps),   *)
(* B (deps A), once A was yielded and B was fed {model_id: m1, ...} for    *)
(* A, B's configuration holds model_id = m1 and the next pull yields B.    *)
(***************************************************************************)
C1_FeedStep(job, name, model_info) ==
  (name \in pre_works[job] /\ FeedDepModelInfo(job, name, model_info)) =>
    /\ Merged(job_parameters'[job], dsl_version[job], model_info)
    /\ \A k \in DOMAIN job_parameters[job].top \ DOMAIN model_info :
         /\ k \in DOMAIN job_parameters'[job].top
         /\ job_parameters'[job].top[k] = job_parameters[job].top[k]
    /\ dsl_version[job] # 1 => job_parameters'[job].top = job_parameters[job].top
    /\ dsl_version[job] = 1 =>
         job_parameters'[job].has_common = job_parameters[job].has_common
    /\ pre_works'[job] = pre_works[job] \ {name}
    /\ \A other \in Range(jobs) \ {job} :
         /\ pre_works'[other] = pre_works[other]
         /\ job_parameters'[other] = job_parameters[other]
    /\ IF pre_works'[job] = {}
       THEN /\ Len(ready_jobs') = Len(ready_jobs) + 1
            /\ Range(ready_jobs') = Range(ready_jobs) \cup {job}
       ELSE ready_jobs' = ready_jobs

C1_Scenario ==
  ScenarioDone =>
    /\ job_parameters["B"].has_common
    /\ "model_id" \in DOMAIN job_parameters["B"].common
    /\ job_parameters["B"].common["model_id"] = "m1"
    /\ \A g \in Gens : gen[g] # "closed" =>
         jobs_iter(gen[g], ready_jobs).job = "B"

C1_FeedMergesAndReleases ==
  /\ [][\/ pre_works' = pre_works
        \/ \A job \in Range(jobs), name \in CallNames, model_info \in ModelInfos :
             C1_FeedStep(job, name, model_info)]_vars
  /\ []C1_Scenario

\* B was fed for A after A was yielded, and a generator can still pull
C1_Witness ==
  /\ ScenarioDone
  /\ pre_works["B"] = {}
  /\ \E g \in Gens : gen[g] = "suspended"

(***************************************************************************)
(* C2: feed_dep_model_info(job, name, model_info) with name not in the     *)
(* job's pre_works (never declared, or fed before) raises RuntimeError     *)
(* and changes nothing: job_parameters, pre_works, _ready_jobs,            *)
(* _dependency and _final_status are as before the call.                   *)
(***************************************************************************)
C2_Raises(job, name, model_info) ==
  name \notin pre_works[job] =>
    LET r == set_pre_work(pre_works[job], job_parameters[job],
                          dsl_version[job], name, model_info)
    IN  /\ r.err = "RuntimeError"
        /\ r.pw = pre_works[job]
        /\ r.jp = job_parameters[job]
        /\ feed_ready_jobs(ready_jobs, job, r) = ready_jobs

C2_FailedFeedMutatesNothing ==
  /\ [](\A job \in Range(jobs), name \in CallNames, model_info \in ModelInfos :
          C2_Raises(job, name, model_info))
  /\ [][\/ UNCHANGED <<pre_works, job_parameters, ready_jobs, dependency,
                        final_status, hist>>
        \/ \A job \in Range(jobs), name \in CallNames, model_info \in ModelInfos :
             name \notin pre_works[job] => ~FeedDepModelInfo(job, name, model_info)]_vars

\* a job that was fed its dependency (feeding it again fails) next to a
\* name it never declared
C2_Witness ==
  \E job \in Range(jobs) :
    /\ deps[job] # {}
    /\ pre_works[job] = {}
    /\ Undeclared \notin deps[job]

(***************************************************************************)
(* C3: over any sequence of calls, every structured job is inserted into   *)
(* _ready_jobs at most once and yielded by jobs_iter at most once, so the  *)
(* generators yield at most as many jobs as the suite has structured jobs. *)
(***************************************************************************)
C3_ReadyAtMostOnce ==
  /\ \A job \in Range(jobs) :
       /\ Cardinality(InsertsOf(job)) <= 1
       /\ Cardinality(YieldsOf(job)) <= 1
  /\ Cardinality(Yields) <= Len(jobs)

\* both jobs were yielded, one of them after a release, with two generators
\* pulling and with reports, updates and removals in between
C3_Witness ==
  /\ Len(jobs) = 2
  /\ Cardinality(Yields) = 2
  /\ \E job \in Range(jobs) : deps[job] # {} /\ YieldsOf(job) # {}
  /\ \A g \in Gens : gen[g] # "created"
  /\ nReports > 0
  /\ nUpdates > 0
  /\ Len(dependency) = 0

(***************************************************************************)
(* C4: every job in _ready_jobs has empty pre_works, and every job a       *)
(* generator yields has empty pre_works at the moment it is yielded.       *)
(***************************************************************************)
C4_ReadyHaveNoPreWorks ==
  /\ [](\A i \in DOMAIN ready_jobs : pre_works[ready_jobs[i]] = {})
  /\ [][\/ ready_jobs' = ready_jobs
        \/ \A g \in Gens :
             (NextReady(g) /\ Len(hist') > Len(hist))
               => pre_works[hist'[Len(hist')].job] = {}]_vars

\* a released job was yielded while another job waits in the deque
C4_Witness ==
  /\ \E job \in Range(jobs) : deps[job] # {} /\ YieldsOf(job) # {}
  /\ Len(ready_jobs) > 0

(***************************************************************************)
(* C5: right after construction _ready_jobs holds exactly the jobs whose   *)
(* declared dependency set is empty, and no job that started with a        *)
(* dependency is yielded before a job that started without one.            *)
(***************************************************************************)
C5_InitialReadinessExact ==
  /\ NothingHappened =>
       /\ Range(ready_jobs) = {job \in Range(jobs) : deps[job] = {}}
       /\ Len(ready_jobs) = Cardinality(Range(ready_jobs))
  /\ \A i \in Yields :
       deps[hist[i].job] # {} =>
         \A job \in Range(jobs) :
           deps[job] = {} => \E k \in YieldsOf(job) : k < i

\* B was released while A was still in the deque, and A was yielded first
C5_Witness ==
  /\ Len(jobs) = 2
  /\ deps["A"] = {}
  /\ deps["B"] # {}
  /\ hist = << [e |-> "insert", job |-> "A"], [e |-> "insert", job |-> "B"],
               [e |-> "yield", job |-> "A"], [e |-> "yield", job |-> "B"] >>

(***************************************************************************)
(* C6: the order in which _ready_jobs is consumed.                         *)
(***************************************************************************)
\* position in hist of the job's insertion into the deque
InsertPos(job) == CHOOSE i \in InsertsOf(job) : TRUE

\* the last event is a yield: the deque is as the pop left it
JustYielded == Len(hist) > 0 /\ hist[Len(hist)].e = "yield"

\* C6 as claimed: jobs_iter yields the job most recently inserted into
\* _ready_jobs (stack order): every job left in the deque was inserted
\* before the job just yielded.
C6_YieldsMostRecent ==
  JustYielded =>
    \A i \in DOMAIN ready_jobs :
      InsertPos(ready_jobs[i]) < InsertPos(hist[Len(hist)].job)

\* C6 as amended: jobs_iter yields the job least recently inserted into
\* _ready_jobs (queue order): every job left in the deque was inserted
\* after the job just yielded, so the initially ready jobs are yielded in
\* document order and a released job after the jobs that were in the deque
\* when it was released.
C6_YieldsLeastRecent ==
  /\ JustYielded =>
       \A i \in DOMAIN ready_jobs :
         InsertPos(ready_jobs[i]) > InsertPos(hist[Len(hist)].job)
  /\ \A i, k \in Yields :
       (i < k /\ deps[hist[i].job] = {} /\ deps[hist[k].job] = {}) =>
         \E m, n \in DOMAIN jobs :
           m < n /\ jobs[m] = hist[i].job /\ jobs[n] = hist[k].job

\* a job was yielded while a job released after its insertion waits
C6_Witness ==
  /\ JustYielded
  /\ \E i \in DOMAIN ready_jobs : deps[ready_jobs[i]] # {}

(***************************************************************************)
(* C7: a generator that has not raised StopIteration sees the jobs         *)
(* released since its last yield: pulled while _ready_jobs is not empty,   *)
(* it yields a job of the deque (the released job, when that is the only   *)
(* one) and stays open.                                                    *)
(***************************************************************************)
C7_Pull(g) ==
  (gen[g] # "closed" /\ Len(ready_jobs) > 0 /\ NextReady(g)) =>
    /\ gen'[g] = "suspended"
    /\ Len(hist') = Len(hist) + 1
    /\ hist'[Len(hist')].e = "yield"
    /\ hist'[Len(hist')].job \in Range(ready_jobs)
    /\ hist'[Len(hist')].job \notin Range(ready_jobs')
    /\ Len(ready_jobs') = Len(ready_jobs) - 1

C7_ReleasedJobsAreVisible ==
  [][\/ gen' = gen /\ ready_jobs' = ready_jobs
     \/ \A g \in Gens : C7_Pull(g)]_vars

\* one generator yielded A, then B was released, and the same generator
\* (the other one was never pulled) yielded B
C7_Witness ==
  /\ \E g \in Gens : gen[g] = "suspended"
  /\ \E g \in Gens : gen[g] = "created"
  /\ deps["A"] = {}
  /\ hist = << [e |-> "insert", job |-> "A"], [e |-> "yield", job |-> "A"],
               [e |-> "insert", job |-> "B"], [e |-> "yield", job |-> "B"] >>

(***************************************************************************)
(* C8: what get_dependent_jobs(name) returns.                              *)
(***************************************************************************)
\* the jobs among the first n that declare name, in document order
RECURSIVE Declaring(_, _)
Declaring(name, n) ==
  IF n = 0 THEN <<>>
  ELSE IF name \in deps[jobs[n]]
       THEN Append(Declaring(name, n - 1), jobs[n])
       ELSE Declaring(name, n - 1)

\* C8 as claimed: get_dependent_jobs(name) returns exactly the jobs that
\* currently wait on name: every job of the list has name in its pre_works
\* and every job with name in its pre_works is in the list.
C8_ExactlyTheWaiting ==
  \A name \in CallNames :
    LET r == get_dependent_jobs(dependency, name) IN
    /\ \A job \in Range(r.jobs) : name \in pre_works[job]
    /\ \A job \in Range(jobs) :
         name \in pre_works[job] => r.err = None /\ job \in Range(r.jobs)

\* C8 as amended: while name has an entry in _dependency,
\* get_dependent_jobs(name) returns the jobs that declared name at load
\* time, in document order, whether or not they were fed since; every job
\* with name in its pre_works is in that list; without an entry it raises
\* KeyError.
C8_TheDeclaring ==
  \A name \in CallNames :
    LET r == get_dependent_jobs(dependency, name) IN
    IF model_in_dep(dependency, name)
    THEN /\ r.err = None
         /\ r.jobs = Declaring(name, Len(jobs))
         /\ Len(r.jobs) > 0
         /\ \A job \in Range(jobs) :
              name \in pre_works[job] => job \in Range(r.jobs)
    ELSE r.err = "KeyError"

\* an entry that lists two jobs, one fed already and one still waiting
C8_Witness ==
  \E name \in DepKeys(dependency) :
    LET r == get_dependent_jobs(dependency, name) IN
    /\ Len(r.jobs) = 2
    /\ name \notin pre_works[r.jobs[1]]
    /\ name \in pre_works[r.jobs[2]]

(***************************************************************************)
(* C9: what get_final_status() puts into rest_dependency.                  *)
(***************************************************************************)
\* the names of the _dependency entries that list the job, in dict order
RECURSIVE Listing(_, _, _)
Listing(dep, job, n) ==
  IF n = 0 THEN <<>>
  ELSE IF job \in Range(dep[n].jobs)
       THEN Append(Listing(dep, job, n - 1), dep[n].name)
       ELSE Listing(dep, job, n - 1)

\* C9 as claimed: after get_final_status() the rest_dependency of every
\* job holds only names of the job's pre_works at that time.
C9_OnlyOutstanding ==
  [][(nReports' # nReports /\ GetFinalStatus) =>
       \A job \in Range(jobs) :
         Range(final_status'[job].rest_dependency) \subseteq pre_works[job]]_vars

\* C9 as amended: get_final_status() appends to the rest_dependency of
\* every job the names of the _dependency entries that list the job and
\* nothing else, and keeps what earlier calls appended.  Each appended name
\* was declared by the job and is in its pre_works or was fed to it without
\* remove_dependency since; a name fed and removed is not appended.
C9_Report(job) ==
  LET before == final_status[job].rest_dependency
      after == final_status'[job].rest_dependency
      added == SubSeq(after, Len(before) + 1, Len(after))
  IN  /\ Len(after) >= Len(before)
      /\ SubSeq(after, 1, Len(before)) = before
      /\ added = Listing(dependency, job, Len(dependency))
      /\ \A name \in Range(added) :
           /\ name \in deps[job]
           /\ model_in_dep(dependency, name)
      /\ \A name \in deps[job] \ pre_works[job] :
           ~model_in_dep(dependency, name) => name \notin Range(added)

C9_ListsIndexedNames ==
  [][(nReports' # nReports /\ GetFinalStatus) =>
       \A job \in Range(jobs) : C9_Report(job)]_vars

\* a first report that lists a dependency fed to the job but not removed
C9_Witness ==
  /\ nReports = 1
  /\ \E job \in Range(jobs) :
       /\ deps[job] # {}
       /\ pre_works[job] = {}
       /\ Len(final_status[job].rest_dependency) = 1
       /\ model_in_dep(dependency, final_status[job].rest_dependency[1])

(***************************************************************************)
(* C10: after get_final_status(), for every name D with an entry in        *)
(* _dependency and every job waiting on D (listed under D, or with D in    *)
(* its pre_works), D is in the job's rest_dependency; and the mapping      *)
(* returned has one record for every job name of the suite, structured or  *)
(* scripted.                                                               *)
(***************************************************************************)
C10_Report ==
  /\ \A name \in DepKeys(dependency), job \in Range(jobs) :
       (\/ job \in Range(get_dependent_jobs(dependency, name).jobs)
        \/ name \in pre_works[job])
         => name \in Range(final_status'[job].rest_dependency)
  /\ DOMAIN final_status' = Range(jobs) \cup Range(pipeline_jobs)
  /\ \A n \in DOMAIN final_status' : final_status'[n].name = n

C10_ReportListsWaiting ==
  [][(nReports' # nReports /\ GetFinalStatus) => C10_Report]_vars

\* one report, with two jobs waiting under the same name and a scripted job
C10_Witness ==
  /\ nReports = 1
  /\ Len(pipeline_jobs) = 1
  /\ \E name \in DepKeys(dependency) :
       /\ Len(get_dependent_jobs(dependency, name).jobs) = 2
       /\ \A job \in Range(jobs) :
            /\ name \in pre_works[job]
            /\ final_status[job].rest_dependency = <<name>>

(***************************************************************************)
(* C11: get_final_status() is not idempotent: every call appends again.    *)
(* After k calls, every name D that has an entry in _dependency is exactly *)
(* k times in the rest_dependency of every job listed under D (twice after *)
(* two calls).                                                             *)
(***************************************************************************)
\* how often name occurs in the sequence
Occurrences(s, name) == Cardinality({i \in DOMAIN s : s[i] = name})

C11_ReportAccumulates ==
  \A i \in DOMAIN dependency :
    \A job \in Range(dependency[i].jobs) :
      Occurrences(final_status[job].rest_dependency, dependency[i].name)
        = nReports

\* two reports: an entry with two jobs, each of them lists the name twice
C11_Witness ==
  /\ nReports = 2
  /\ \E i \in DOMAIN dependency :
       /\ Len(dependency[i].jobs) = 2
       /\ \A job \in Range(dependency[i].jobs) :
            final_status[job].rest_dependency
              = <<dependency[i].name, dependency[i].name>>

(***************************************************************************)
(* C12: remove_dependency(name) deletes the entry of name from _dependency *)
(* when there is one, keeping the other entries and their order, and       *)
(* changes nothing else; without an entry (never there, or removed before) *)
(* it raises KeyError and _dependency is as before; no call ever adds a    *)
(* key, so the key set of _dependency only shrinks and a removed name      *)
(* stays removed.                                                          *)
(***************************************************************************)
\* the entries of dep other than that of name, in order
RECURSIVE Without(_, _, _)
Without(dep, name, n) ==
  IF n = 0 THEN <<>>
  ELSE IF dep[n].name = name THEN Without(dep, name, n - 1)
       ELSE Append(Without(dep, name, n - 1), dep[n])

C12_Call(name) ==
  LET r == remove_dependency(dependency, name) IN
  IF \E i \in DOMAIN dependency : dependency[i].name = name
  THEN /\ r.err = None
       /\ r.dep = Without(dependency, name, Len(dependency))
       /\ Len(r.dep) = Len(dependency) - 1
       /\ remove_dependency(r.dep, name).err = "KeyError"
  ELSE /\ r.err = "KeyError"
       /\ r.dep = dependency

C12_Step ==
  /\ DepKeys(dependency') \subseteq DepKeys(dependency)
  /\ \A name \in CallNames :
       RemoveDependency(name) =>
         /\ dependency' = remove_dependency(dependency, name).dep
         /\ UNCHANGED <<pre_works, job_parameters, ready_jobs, final_status,
                        gen, hist>>

C12_RemoveOnlyShrinks ==
  /\ [](\A name \in CallNames : C12_Call(name))
  /\ [][dependency' = dependency \/ C12_Step]_vars

\* of two entries the first was removed: the second is left, and the
\* removed name has no entry
C12_Witness ==
  /\ DepKeys(InitDependency(jobs, deps, Len(jobs))) = {"A", "B"}
  /\ DepKeys(dependency) = {"A"}

(***************************************************************************)
(* C13: update_status(job_name, ...) for a job_name without a record in    *)
(* _final_status raises KeyError whichever of job_id, status and           *)
(* exception_id are given, also when none of them is, and no record        *)
(* changes.                                                                *)
(***************************************************************************)
\* every way of giving or leaving out job_id, status and exception_id
AllUpdateArgs == {None, "j1"} \X {None, "s1"} \X {None, "e1"}

\* the names of the model that have no record
NoRecord == (Range(JobNames) \cup {ScriptName, Undeclared}) \ DOMAIN final_status

C13_UnknownJobFails ==
  \A job_name \in NoRecord, a \in AllUpdateArgs :
    LET r == update_status(final_status, job_name, a[1], a[2], a[3]) IN
    /\ r.err = "KeyError"
    /\ r.fs = final_status

\* a suite with records that were updated and reported on, and a name of
\* a job that is not in the suite
C13_Witness ==
  /\ "B" \in NoRecord
  /\ nUpdates > 0
  /\ nReports > 0
  /\ final_status["A"].job_id = "j1"

(***************************************************************************)
(* C14: the records of _final_status.                                      *)
(***************************************************************************)
\* no report was made and no record was updated since construction
Untouched == nReports = 0 /\ nUpdates = 0

\* C14 as claimed: a suite of N structured and M scripted jobs has exactly
\* N + M records.
C14_NPlusMRecords ==
  Cardinality(DOMAIN final_status) = Len(jobs) + Len(pipeline_jobs)

\* C14 as amended: a suite has exactly one record per job name, structured
\* or scripted, that is N + M records when no scripted job carries the
\* name of a structured job and one record for a name that both carry;
\* right after construction every record holds job_id "-", status
\* "not submitted", exception_id "-" and an empty rest_dependency; no call
\* adds or deletes a record.
C14_OneRecordPerName ==
  /\ DOMAIN final_status = Range(jobs) \cup Range(pipeline_jobs)
  /\ Cardinality(DOMAIN final_status)
       = Len(jobs) + Len(pipeline_jobs)
         - Cardinality(Range(jobs) \cap Range(pipeline_jobs))
  /\ \A n \in DOMAIN final_status : final_status[n].name = n
  /\ Untouched =>
       \A n \in DOMAIN final_status :
         /\ final_status[n].job_id = "-"
         /\ final_status[n].status = "not submitted"
         /\ final_status[n].exception_id = "-"
         /\ final_status[n].rest_dependency = <<>>

\* a structured and a scripted job of the same name share the one record,
\* which was updated and reported on
C14_Witness ==
  /\ Range(jobs) \cap Range(pipeline_jobs) # {}
  /\ Cardinality(DOMAIN final_status) = 1
  /\ nUpdates > 0
  /\ nReports > 0
  /\ Len(dependency) = 0
  /\ Cardinality(Yields) = 1

(***************************************************************************)
(* C15: reflash_configs(config) does not stop at a job whose               *)
(* JobConf.update is rejected with ValueError: when no job raises another  *)
(* exception it returns, and the list it returns holds one (job, error)    *)
(* pair for every rejected job, in order, and none for an accepted job;    *)
(* every accepted job, before or after a rejected one, ends with work_mode *)
(* and backend in its job_parameters (dsl_version 1) or in                 *)
(* job_parameters.common; every Data.config ends with work_mode and        *)
(* backend whatever happens to the jobs.                                   *)
(***************************************************************************)
Rejected(outcome) == outcome \in {"ValueError initiator", "ValueError role"}

\* the jobs among the first n whose update is rejected, in document order
RECURSIVE RejectedJobs(_, _)
RejectedJobs(outcomes, n) ==
  IF n = 0 THEN <<>>
  ELSE IF Rejected(outcomes[jobs[n]])
       THEN Append(RejectedJobs(outcomes, n - 1), <<jobs[n], "ValueError">>)
       ELSE RejectedJobs(outcomes, n - 1)

\* what the call returns and leaves in the confs
C15_Call(outcomes) ==
  LET r == reflash_jobs(JobConfs, outcomes, Len(jobs)) IN
  (\A j \in Range(jobs) : outcomes[j] # "KeyError") =>
    /\ r.err = None
    /\ r.failed = RejectedJobs(outcomes, Len(jobs))
    /\ \A j \in Range(jobs) :
         outcomes[j] = "ok" =>
           Merged(r.confs[j].job_parameters, dsl_version[j], EnvParams)

\* what the call leaves in the suite
C15_Step(outcomes) ==
  ReflashConfigs(outcomes) =>
    /\ \A i \in DOMAIN dataset' : Contains(dataset'[i], EnvParams)
    /\ \A i \in DOMAIN dataset :
         \A k \in DOMAIN dataset[i] \ DOMAIN EnvParams :
           k \in DOMAIN dataset'[i] /\ dataset'[i][k] = dataset[i][k]
    /\ \A j \in Range(jobs) :
         (/\ outcomes[j] = "ok"
          /\ \A m, n \in DOMAIN jobs :
               (outcomes[jobs[m]] = "KeyError" /\ jobs[n] = j) => n < m)
           => Merged(job_parameters'[j], dsl_version[j], EnvParams)

C15_PartialFailure ==
  /\ [](\A outcomes \in [Range(jobs) -> UpdateOutcomes] : C15_Call(outcomes))
  /\ [][UNCHANGED env \/ \A outcomes \in CallOutcomes : C15_Step(outcomes)]_vars

\* the first job was rejected and is as in its conf document, the second,
\* fed before, was accepted
C15_Witness ==
  /\ Len(jobs) = 2
  /\ initiator["A"] = ConfInitiator
  /\ job_parameters["A"].top = ConfParams
  /\ Merged(job_parameters["B"], dsl_version["B"], EnvParams)
  /\ deps["B"] # {}
  /\ pre_works["B"] = {}
  /\ \A i \in DOMAIN dataset : Contains(dataset[i], EnvParams)

(***************************************************************************)
(* C16: what the constructor does with a dependency on a name that no job  *)
(* of the suite carries.                                                   *)
(***************************************************************************)
\* the job names of the suite
SuiteNames == Range(jobs) \cup Range(pipeline_jobs)

\* C16 as claimed: the dependency targets are validated at load time, so
\* no job of a constructed suite waits on a name that is not the name of
\* a job of the suite.
C16_TargetsAreDeclared ==
  \A job \in Range(jobs) : pre_works[job] \subseteq SuiteNames

\* C16 as amended: the dependency targets are not validated.  A suite in
\* which a job declares a dependency on a name that no job of the suite
\* carries is constructed like any other: the job is listed under that
\* name in _dependency, has the name in its pre_works, is not in
\* _ready_jobs and has the default record; as long as the name is in its
\* pre_works the job is not in _ready_jobs and is not yielded.
C16_WaitsOnUndeclared ==
  \A job \in Range(jobs) :
    Undeclared \in pre_works[job] =>
      /\ Undeclared \in deps[job]
      /\ job \notin Range(ready_jobs)
      /\ YieldsOf(job) = {}

\* C16 as amended, the two parts: the suite as constructed, and every
\* state after it
C16_UndeclaredTargetsAreLoaded ==
  /\ \A job \in Range(jobs) :
       Undeclared \in deps[job] =>
         /\ pre_works[job] = {Undeclared}
         /\ model_in_dep(dependency, Undeclared)
         /\ job \in Range(get_dependent_jobs(dependency, Undeclared).jobs)
         /\ job \notin Range(ready_jobs)
         /\ final_status[job].status = "not submitted"
         /\ final_status[job].rest_dependency = <<>>
  /\ []C16_WaitsOnUndeclared

\* the other job of the suite was yielded and a report was made: the job
\* still waits on the undeclared name, which the report lists
C16_Witness ==
  /\ Cardinality(Yields) = 1
  /\ nReports = 1
  /\ \E job \in Range(jobs) :
       /\ Undeclared \in pre_works[job]
       /\ final_status[job].rest_dependency = <<Undeclared>>

(***************************************************************************)
(* C17: update_status(job_name, job_id, status, exception_id) for a        *)
(* job_name with a record sets exactly the fields given (not None) to the  *)
(* values given and keeps the others; it changes no other record, no       *)
(* rest_dependency, and neither _ready_jobs nor _dependency.               *)
(***************************************************************************)
\* the record after the fields given were set
FieldsSet(record, job_id, status, exception_id) ==
  [record EXCEPT
     !.job_id = IF job_id # None THEN job_id ELSE @,
     !.status = IF status # None THEN status ELSE @,
     !.exception_id = IF exception_id # None THEN exception_id ELSE @]

C17_SetsExactlyGivenFields ==
  [][\A job_name \in StatusNames \cap DOMAIN final_status, a \in UpdateArgs :
       (nUpdates' # nUpdates /\ UpdateStatus(job_name, a[1], a[2], a[3])) =>
         /\ final_status'[job_name]
              = FieldsSet(final_status[job_name], a[1], a[2], a[3])
         /\ \A other \in DOMAIN final_status \ {job_name} :
              final_status'[other] = final_status[other]
         /\ UNCHANGED <<ready_jobs, dependency>>]_vars

\* what the code does: besides the fields given, the call binds the suite
\* to an attribute "self" of the record; the rest is as in C17
C17_SetsGivenFieldsAndSelf ==
  [][\A job_name \in StatusNames \cap DOMAIN final_status, a \in UpdateArgs :
       (nUpdates' # nUpdates /\ UpdateStatus(job_name, a[1], a[2], a[3])) =>
         /\ final_status'[job_name]
              = [FieldsSet(final_status[job_name], a[1], a[2], a[3])
                   EXCEPT !.self = TestsuiteObject]
         /\ final_status'[job_name].rest_dependency
              = final_status[job_name].rest_dependency
         /\ \A other \in DOMAIN final_status \ {job_name} :
              final_status'[other] = final_status[other]
         /\ UNCHANGED <<ready_jobs, dependency, pre_works, job_parameters>>]_vars

(***************************************************************************)
(* C18: in every state, model_in_dep(name) is true iff _dependency has an  *)
(* entry for name; every entry of _dependency is a non-empty list;         *)
(* get_dependent_jobs(name) raises KeyError exactly when                   *)
(* model_in_dep(name) is false and returns the entry otherwise.  (Neither  *)
(* call assigns anything.)                                                 *)
(***************************************************************************)
HasEntry(name) == \E i \in DOMAIN dependency : dependency[i].name = name

C18_IndexQueries ==
  /\ \A name \in CallNames \cup Range(pipeline_jobs) :
       LET r == get_dependent_jobs(dependency, name) IN
       /\ model_in_dep(dependency, name) = HasEntry(name)
       /\ (r.err = "KeyError") = ~model_in_dep(dependency, name)
       /\ HasEntry(name) =>
            /\ r.err = None
            /\ \E i \in DOMAIN dependency :
                 dependency[i].name = name /\ r.jobs = dependency[i].jobs
  /\ \A i \in DOMAIN dependency : Len(dependency[i].jobs) > 0
  /\ \A i, k \in DOMAIN dependency :
       dependency[i].name = dependency[k].name => i = k

\* one entry is left, the entry of another declared name was removed, and
\* a third name never had one
C18_Witness ==
  /\ Len(dependency) = 1
  /\ \E name \in Range(jobs) :
       /\ Declaring(name, Len(jobs)) # <<>>
       /\ ~model_in_dep(dependency, name)
  /\ Declaring(Undeclared, Len(jobs)) = <<>>

(***************************************************************************)
(* C19: the only call that takes a job out of _ready_jobs is a pull of a   *)
(* jobs_iter generator, which takes out exactly the job it yields; a       *)
(* successful feed_dep_model_info puts its job in front of the jobs        *)
(* already there; a failing feed_dep_model_info, remove_dependency,        *)
(* update_status, get_final_status and reflash_configs leave the deque as  *)
(* it is.  Only structured jobs are in _ready_jobs and in the lists of     *)
(* _dependency, never a scripted job.                                      *)
(***************************************************************************)
\* a pull that yields: the right end of the deque goes, the rest stays
C19_Pull ==
  /\ \E g \in Gens : NextReady(g)
  /\ Len(ready_jobs) > 0
  /\ hist' = Append(hist, [e |-> "yield", job |-> ready_jobs[Len(ready_jobs)]])
  /\ ready_jobs' = SubSeq(ready_jobs, 1, Len(ready_jobs) - 1)

\* a successful feed that releases: the job goes in front, the rest stays
C19_Release ==
  /\ \E job \in Range(jobs), name \in CallNames, model_info \in ModelInfos :
       /\ name \in pre_works[job]
       /\ FeedDepModelInfo(job, name, model_info)
       /\ ready_jobs'[1] = job
  /\ Len(ready_jobs') = Len(ready_jobs) + 1
  /\ SubSeq(ready_jobs', 2, Len(ready_jobs')) = ready_jobs

\* no job is both structured and scripted: names tell the jobs apart
DistinctNames == Range(jobs) \cap Range(pipeline_jobs) = {}

C19_OnlyStructured ==
  /\ Range(ready_jobs) \subseteq Range(jobs)
  /\ \A i \in DOMAIN dependency : Range(dependency[i].jobs) \subseteq Range(jobs)
  /\ DistinctNames =>
       \A pj \in Range(pipeline_jobs) :
         /\ pj \notin Range(ready_jobs)
         /\ InsertsOf(pj) = {}
         /\ \A i \in DOMAIN dependency : pj \notin Range(dependency[i].jobs)

C19_ReleasedStayReleased ==
  /\ []C19_OnlyStructured
  /\ [][ready_jobs' = ready_jobs \/ C19_Pull \/ C19_Release]_vars

\* B was released in front of the waiting job A, and A was then pulled;
\* the environment was propagated, a record updated, a report made and
\* the entry removed, and B is still in the deque
C19_Witness ==
  /\ hist = << [e |-> "insert", job |-> "A"], [e |-> "insert", job |-> "B"],
               [e |-> "yield", job |-> "A"] >>
  /\ ready_jobs = <<"B">>
  /\ \A i \in DOMAIN dataset : Contains(dataset[i], EnvParams)
  /\ nUpdates = 1
  /\ nReports = 1
  /\ Len(dependency) = 0
  /\ Len(pipeline_jobs) = 1

(***************************************************************************)
(* C20: what a run of the driver, which does not stop while it has a step  *)
(* to take, yields and reports.                                            *)
(***************************************************************************)
\* the chain of declared dependencies of the job ends, within n steps, at
\* a job without dependency, the names counting as jobs; a scripted job
\* has no dependency
RECURSIVE ChainEnds(_, _, _)
ChainEnds(job, n, names) ==
  IF job \notin Range(jobs) \/ deps[job] = {} THEN TRUE
  ELSE IF n = 0 THEN FALSE
       ELSE \E d \in deps[job] : d \in names /\ ChainEnds(d, n - 1, names)

DriverDone == DriverAt = "done"

\* C20 as claimed: when the run has ended, every structured job whose
\* chain of declared dependencies ends at a dependency-free job of the
\* suite, structured or scripted, was yielded.
C20_YieldsAllThatEndInSuite ==
  DriverDone =>
    \A job \in Range(jobs) :
      ChainEnds(job, Len(jobs), SuiteNames) => YieldsOf(job) # {}

\* C20 as amended: the run ends: the generator returns with _ready_jobs
\* empty and the report is made.  Every structured job whose chain of
\* declared dependencies ends at a structured job without dependency is
\* yielded, exactly once and after the job it depends on; the jobs never
\* yielded are exactly the others, whose chain reaches a name that no
\* structured job carries (a name of no job, or of a scripted job) or runs
\* into a cycle: they keep their dependency, stay listed under it in
\* _dependency, and the report shows them with status "not submitted" and
\* that dependency in rest_dependency.
C20_AtTheEnd ==
  /\ gen[DriverGen] = "closed"
  /\ ready_jobs = <<>>
  /\ nReports = 1
  /\ \A job \in Range(jobs) :
       IF ChainEnds(job, Len(jobs), Range(jobs))
       THEN /\ Cardinality(YieldsOf(job)) = 1
            /\ pre_works[job] = {}
       ELSE /\ YieldsOf(job) = {}
            /\ pre_works[job] = deps[job]
            /\ final_status[job].status = "not submitted"
            /\ \A d \in deps[job] :
                 /\ model_in_dep(dependency, d)
                 /\ job \in Range(get_dependent_jobs(dependency, d).jobs)
                 /\ final_status[job].rest_dependency = <<d>>

C20_InOrder ==
  \A job \in Range(jobs) :
    /\ Cardinality(YieldsOf(job)) <= 1
    /\ \A i \in YieldsOf(job), d \in deps[job] : \E k \in YieldsOf(d) : k < i

C20_DriverRunsAllRunnable ==
  /\ <>DriverDone
  /\ [](DriverDone => C20_AtTheEnd)
  /\ []C20_InOrder

\* the run of a suite of three ended: A and then B, which depends on A,
\* were yielded and recorded, C waits on the name of the scripted job
C20_Witness ==
  /\ DriverDone
  /\ Len(jobs) = 3
  /\ deps["B"] = {"A"}
  /\ deps["C"] = {ScriptName}
  /\ hist = << [e |-> "insert", job |-> "A"], [e |-> "yield", job |-> "A"],
               [e |-> "insert", job |-> "B"], [e |-> "yield", job |-> "B"] >>
  /\ final_status["B"].status = DriverStatus
  /\ final_status["C"].rest_dependency = <<ScriptName>>
====
